---- MODULE Spec2Model ----
(***************************************************************************)
(* Model of src/src/Arc.rs: one ArcData block, its two atomic counters,    *)
(* the payload, and the Arc / Weak handles that point at it.  Every atomic *)
(* memory operation of a handler is one step of the thread running it, so  *)
(* all interleavings of the handlers are explored.                         *)
(* The lock and the channels of spinlock.rs, oneshotchannel.rs and         *)
(* mutexchannel.rs are independent programs: each has its own variables    *)
(* and its own specification, and leaves the others' variables alone.      *)
(*                                                                         *)
(* Reading of the source where its names do not resolve:                   *)
(*  - `ref_count` (Arc::clone l.132, Arc::drop l.168) is data_ref_count:   *)
(*    it is the counter whose 1 -> 0 transition destroys the payload.      *)
(*  - `impl Clone for Weak` (l.141-150) is modelled by what its body does: *)
(*    it copies the pointer (l.143) and does fetch_add(1) on               *)
(*    data_ref_count (l.145); it never touches alloc_ref_count.            *)
(*  - Weak::upgrade returns Arc { weak: self.clone() } (l.113): after its  *)
(*    successful compare-exchange it runs the body of Weak::clone.         *)
(***************************************************************************)
EXTENDS Integers, FiniteSets, Sequences, TLC

\* ---------------------------------------------------------------- bounds
Width == 3            \* bits of a usize in the model
NumProcs == 2         \* threads
MaxHandles == 4       \* live Arc and Weak values at one time
MaxDrops == 2         \* the payload destructor count saturates here
MaxFrees == 2         \* the deallocation count saturates here

UsizeMax == 2^Width - 1          \* usize::MAX
HalfMax == UsizeMax \div 2       \* usize::MAX / 2
Usize == 0..UsizeMax

Procs == 1..NumProcs

VARIABLES
    data_ref_count,   \* ArcData.data_ref_count
    alloc_ref_count,  \* ArcData.alloc_ref_count
    drops,            \* times ManuallyDrop::drop ran on the payload (NUM_DROPS)
    frees,            \* times Box::from_raw(ptr) was dropped
    arcs,             \* number of live Arc values pointing at the block
    weaks,            \* number of live Weak values pointing at the block
    pc,               \* thread -> position inside the handler it runs
    n,                \* thread -> local `n` of downgrade / upgrade
    is_unique,        \* thread -> local `is_unique` of get_mut
    aborted           \* std::process::abort() was called

arcVars == <<data_ref_count, alloc_ref_count, drops, frees, arcs, weaks, pc, n,
             is_unique, aborted>>

\* ---- spinlock.rs
NumSpinners == 3      \* threads spawned in the scope of simulate_spinlock
Spinners == 1..NumSpinners
Main == 0             \* the thread that opens the scope
PushesOf(t) == t      \* thread 1 pushes 1 once, thread 2 pushes 2 twice, ...

VARIABLES
    locked,           \* SpinLock.locked
    value,            \* SpinLock.value, the Vec
    sp,               \* thread -> position in simulate_spinlock
    pushed,           \* thread -> pushes it has done through its Guard
    asserted          \* outcome of the assert! at the end: "none", "pass", "fail"

spinVars == <<locked, value, sp, pushed, asserted>>

SpinInit ==
    /\ locked = FALSE
    /\ value = <<>>
    /\ sp = [t \in Spinners \cup {Main} |-> IF t = Main THEN "scope" ELSE "new"]
    /\ pushed = [t \in Spinners |-> 0]
    /\ asserted = "none"

\* ---- oneshotchannel.rs, OneshotChannel
NumUsers == 2         \* threads sharing one &OneshotChannel
NumMsgs == 2          \* distinct messages a send may carry
MaxMoves == 2         \* writes into / moves out of the slot that are recorded
Users == 1..NumUsers
Msgs == 1..NumMsgs
Uninit == 0           \* MaybeUninit::uninit(), or a slot whose value was moved out

VARIABLES
    message,          \* OneshotChannel.message: Uninit or the message it holds
    ready,            \* OneshotChannel.ready
    in_use,           \* OneshotChannel.in_use
    op,               \* thread -> position in send / receive
    arg,              \* thread -> the message its send was called with
    saw,              \* thread -> what its last is_ready returned
    written,          \* the messages written into the slot, in order
    taken,            \* the values moved out of the slot, in order
    uninit_read,      \* the slot was read or dropped while it held no value
    dropped           \* Drop for OneshotChannel has run

oneVars == <<message, ready, in_use, op, arg, saw, written, taken, uninit_read,
             dropped>>

OneInit ==
    /\ message = Uninit
    /\ ready = FALSE
    /\ in_use = FALSE
    /\ op = [t \in Users |-> "idle"]
    /\ arg = [t \in Users |-> Uninit]
    /\ saw = [t \in Users |-> FALSE]
    /\ written = <<>>
    /\ taken = <<>>
    /\ uninit_read = FALSE
    /\ dropped = FALSE

\* ---- oneshotchannel.rs, Channel split into Sender and Receiver
MaxReceives == 2      \* calls of Receiver::receive(&self)

VARIABLES
    ch_message,       \* Channel.message: Uninit or the message it holds
    ch_ready,         \* Channel.ready
    token,            \* park token of Sender.receiving_thread
    sender,           \* position of the thread that owns the Sender
    receiver,         \* position of the thread that owns the Receiver
    sent,             \* the message send was called with (Uninit before the call)
    calls,            \* calls of receive so far
    woken,            \* how the last thread::park returned: "none", "token", "spurious"
    results,          \* what the calls of receive returned, in order
    ch_uninit_read,   \* the slot was read or dropped while it held no value
    ch_dropped        \* Drop for Channel has run

chVars == <<ch_message, ch_ready, token, sender, receiver, sent, calls, woken,
            results, ch_uninit_read, ch_dropped>>

ChInit ==
    /\ ch_message = Uninit
    /\ ch_ready = FALSE
    /\ token = FALSE
    /\ sender = "new"
    /\ receiver = "idle"
    /\ sent = Uninit
    /\ calls = 0
    /\ woken = "none"
    /\ results = <<>>
    /\ ch_uninit_read = FALSE
    /\ ch_dropped = FALSE

\* ---- mutexchannel.rs
NumWorkers == 3       \* threads sharing one &MutexChannel
MaxSends == 2         \* calls of send; the k-th call carries message k
MaxSpurious == 1      \* spurious returns of Condvar::wait
Workers == 1..NumWorkers
Unlocked == 0         \* no thread holds the Mutex

VARIABLES
    queue,            \* the VecDeque inside MutexChannel.queue
    mutex,            \* the thread that holds the Mutex, or Unlocked
    waiters,          \* threads blocked in item_ready.wait
    wk,               \* thread -> position in send / receive
    carried,          \* thread -> the message its send was called with
    sends,            \* calls of send so far
    spurious,         \* spurious returns of wait so far
    appended,         \* every message push_back has appended, in order
    popped            \* every message receive has returned, in order

mqVars == <<queue, mutex, waiters, wk, carried, sends, spurious, appended,
            popped>>

MqInit ==
    /\ queue = <<>>
    /\ mutex = Unlocked
    /\ waiters = {}
    /\ wk = [t \in Workers |-> "idle"]
    /\ carried = [t \in Workers |-> 0]
    /\ sends = 0
    /\ spurious = 0
    /\ appended = <<>>
    /\ popped = <<>>

sideVars == <<spinVars, oneVars, chVars, mqVars>>
vars == <<arcVars, sideVars>>

\* ------------------------------------------------------------- helpers
WrapAdd(x) == (x + 1) % (UsizeMax + 1)       \* fetch_add(1) on a usize
WrapSub(x) == (x + UsizeMax) % (UsizeMax + 1) \* fetch_sub(1) on a usize
SatInc(x, max) == IF x < max THEN x + 1 ELSE x

\* Once drop(Box::from_raw(ptr)) ran, the storage belongs to the allocator and
\* every pointer to it dangles: an atomic read through one returns whatever
\* the storage's next owner left there, and what is written is lost to it.
Seen(counter) == IF frees > 0 THEN Usize ELSE {counter}
Stored(counter, v) == IF frees > 0 THEN counter ELSE v

\* Handles are interchangeable, so the borrows the running handlers hold are
\* read off their positions: get_mut holds an Arc by &mut, downgrade an Arc
\* by &, upgrade a Weak by &.
MutArcs == Cardinality({q \in Procs : pc[q] \in {"gm_load", "gm_store", "gm_some"}})
SharedArc == IF \E q \in Procs : pc[q] = "dg_loop" THEN 1 ELSE 0
SharedWeak == IF \E q \in Procs : pc[q] \in {"up_loop", "up_clone"} THEN 1 ELSE 0

Ready(p) == ~aborted /\ pc[p] = "idle"
\* &self on an Arc: some Arc is not held by &mut.
CanShareArc(p) == Ready(p) /\ arcs - MutArcs >= 1
\* &mut self / self on an Arc: some Arc is not borrowed at all.
CanOwnArc(p) == Ready(p) /\ arcs - MutArcs - SharedArc >= 1
CanShareWeak(p) == Ready(p) /\ weaks >= 1
CanOwnWeak(p) == Ready(p) /\ weaks - SharedWeak >= 1
\* Room for one more handle within the model's bound.
Room == arcs + weaks < MaxHandles

Goto(p, label) == pc' = [pc EXCEPT ![p] = label]

Finish(p) ==
    /\ Goto(p, "idle")
    /\ n' = [n EXCEPT ![p] = 0]

\* ------------------------------------------------------------- state
Init ==
    /\ data_ref_count = 1
    /\ alloc_ref_count = 1
    /\ drops = 0
    /\ frees = 0
    /\ arcs = 1
    /\ weaks = 0
    /\ pc = [p \in Procs |-> "idle"]
    /\ n = [p \in Procs |-> 0]
    /\ is_unique = [p \in Procs |-> FALSE]
    /\ aborted = FALSE

\* ------------------------------------------------------------- Arc
\* Deref for Arc: reads the payload through the pointer; it writes nothing.
Deref(p) ==
    /\ CanShareArc(p)
    /\ UNCHANGED vars

\* Clone for Arc: fetch_add(1) on the Arc counter, abort if it was > MAX/2.
ArcClone(p) ==
    /\ CanShareArc(p)
    /\ Room
    /\ \E old \in Seen(data_ref_count) :
         /\ data_ref_count' = Stored(data_ref_count, WrapAdd(old))
         /\ IF old > HalfMax
              THEN aborted' = TRUE /\ arcs' = arcs
              ELSE aborted' = aborted /\ arcs' = arcs + 1
    /\ UNCHANGED <<alloc_ref_count, drops, frees, weaks, pc, n, is_unique>>
    /\ UNCHANGED sideVars

\* Arc::get_mut, step 1: compare_exchange(1, usize::MAX) on alloc_ref_count.
GmCas(p) ==
    /\ CanOwnArc(p)
    /\ \E cur \in Seen(alloc_ref_count) :
         IF cur = 1
           THEN /\ alloc_ref_count' = Stored(alloc_ref_count, UsizeMax)
                /\ Goto(p, "gm_load")
           ELSE /\ alloc_ref_count' = alloc_ref_count
                /\ Goto(p, "gm_none")
    /\ UNCHANGED <<data_ref_count, drops, frees, arcs, weaks, n, is_unique, aborted>>
    /\ UNCHANGED sideVars

\* Arc::get_mut, step 2: is_unique = data_ref_count.load() == 1.
GmLoad(p) ==
    /\ ~aborted
    /\ pc[p] = "gm_load"
    /\ \E cur \in Seen(data_ref_count) :
         is_unique' = [is_unique EXCEPT ![p] = (cur = 1)]
    /\ Goto(p, "gm_store")
    /\ UNCHANGED <<data_ref_count, alloc_ref_count, drops, frees, arcs, weaks, n, aborted>>
    /\ UNCHANGED sideVars

\* Arc::get_mut, step 3: alloc_ref_count.store(1), then None or Some(&mut T).
GmStore(p) ==
    /\ ~aborted
    /\ pc[p] = "gm_store"
    /\ alloc_ref_count' = Stored(alloc_ref_count, 1)
    /\ is_unique' = [is_unique EXCEPT ![p] = FALSE]
    /\ IF is_unique[p] THEN Goto(p, "gm_some") ELSE Goto(p, "gm_none")
    /\ UNCHANGED <<data_ref_count, drops, frees, arcs, weaks, n, aborted>>
    /\ UNCHANGED sideVars

\* The caller is done with what get_mut returned: None, or Some(&mut T),
\* which kept the Arc borrowed until now.
GmRelease(p) ==
    /\ ~aborted
    /\ pc[p] \in {"gm_some", "gm_none"}
    /\ Goto(p, "idle")
    /\ UNCHANGED <<data_ref_count, alloc_ref_count, drops, frees, arcs, weaks, n,
                   is_unique, aborted>>
    /\ UNCHANGED sideVars

\* Arc::downgrade: n = alloc_ref_count.load().
DgLoad(p) ==
    /\ CanShareArc(p)
    /\ \E cur \in Seen(alloc_ref_count) : n' = [n EXCEPT ![p] = cur]
    /\ Goto(p, "dg_loop")
    /\ UNCHANGED <<data_ref_count, alloc_ref_count, drops, frees, arcs, weaks,
                   is_unique, aborted>>
    /\ UNCHANGED sideVars

\* Arc::downgrade: n == usize::MAX, spin and load again.
DgSpin(p) ==
    /\ ~aborted
    /\ pc[p] = "dg_loop"
    /\ n[p] = UsizeMax
    /\ \E cur \in Seen(alloc_ref_count) : n' = [n EXCEPT ![p] = cur]
    /\ UNCHANGED <<data_ref_count, alloc_ref_count, drops, frees, arcs, weaks, pc,
                   is_unique, aborted>>
    /\ UNCHANGED sideVars

\* Arc::downgrade: assert!(n < usize::MAX - 1) fails, the thread panics.
DgPanic(p) ==
    /\ ~aborted
    /\ pc[p] = "dg_loop"
    /\ n[p] # UsizeMax
    /\ ~(n[p] < UsizeMax - 1)
    /\ Goto(p, "dg_panicked")
    /\ UNCHANGED <<data_ref_count, alloc_ref_count, drops, frees, arcs, weaks, n,
                   is_unique, aborted>>
    /\ UNCHANGED sideVars

\* Arc::downgrade: compare_exchange_weak(n, n + 1); Err(e) sets n = e.
\* (A spurious failure leaves n = e = the current value: a stuttering step.)
DgCas(p) ==
    /\ ~aborted
    /\ pc[p] = "dg_loop"
    /\ n[p] < UsizeMax - 1
    /\ \E cur \in Seen(alloc_ref_count) :
         IF cur = n[p]
           THEN /\ Room
                /\ alloc_ref_count' = Stored(alloc_ref_count, n[p] + 1)
                /\ weaks' = weaks + 1
                /\ Finish(p)
           ELSE /\ n' = [n EXCEPT ![p] = cur]
                /\ UNCHANGED <<alloc_ref_count, weaks, pc>>
    /\ UNCHANGED <<data_ref_count, drops, frees, arcs, is_unique, aborted>>
    /\ UNCHANGED sideVars

\* Drop for Arc: fetch_sub(1) on the Arc counter; the handle is gone.
ArcDrop(p) ==
    /\ CanOwnArc(p)
    /\ arcs' = arcs - 1
    /\ \E old \in Seen(data_ref_count) :
         /\ data_ref_count' = Stored(data_ref_count, WrapSub(old))
         /\ IF old = 1 THEN Goto(p, "ad_destroy") ELSE Goto(p, "idle")
    /\ UNCHANGED <<alloc_ref_count, drops, frees, weaks, n, is_unique,
                   aborted>>
    /\ UNCHANGED sideVars

\* Drop for Arc, counter went 1 -> 0: ManuallyDrop::drop(payload), then
\* drop(Weak { ptr }).
ArcDropPayload(p) ==
    /\ ~aborted
    /\ pc[p] = "ad_destroy"
    /\ drops' = SatInc(drops, MaxDrops)
    /\ Goto(p, "wd_sub")
    /\ UNCHANGED <<data_ref_count, alloc_ref_count, frees, arcs, weaks, n,
                   is_unique, aborted>>
    /\ UNCHANGED sideVars

\* ------------------------------------------------------------- Weak
\* Drop for Weak, fetch_sub(1) on alloc_ref_count (shared by both entries).
WeakSub(p) ==
    \E old \in Seen(alloc_ref_count) :
      /\ alloc_ref_count' = Stored(alloc_ref_count, WrapSub(old))
      /\ IF old = 1 THEN Goto(p, "wd_free") ELSE Goto(p, "idle")

\* Drop for Weak, called on a Weak handle.
WeakDrop(p) ==
    /\ CanOwnWeak(p)
    /\ weaks' = weaks - 1
    /\ WeakSub(p)
    /\ UNCHANGED <<data_ref_count, drops, frees, arcs, n, is_unique,
                   aborted>>
    /\ UNCHANGED sideVars

\* Drop for Weak, called by Arc::drop on Weak { ptr: self.ptr }.
ArcDropWeak(p) ==
    /\ ~aborted
    /\ pc[p] = "wd_sub"
    /\ WeakSub(p)
    /\ UNCHANGED <<data_ref_count, drops, frees, arcs, weaks, n, is_unique, aborted>>
    /\ UNCHANGED sideVars

\* Drop for Weak, counter went 1 -> 0: drop(Box::from_raw(ptr)).
WeakDropFree(p) ==
    /\ ~aborted
    /\ pc[p] = "wd_free"
    /\ frees' = SatInc(frees, MaxFrees)
    /\ Goto(p, "idle")
    /\ UNCHANGED <<data_ref_count, alloc_ref_count, drops, arcs, weaks, n,
                   is_unique, aborted>>
    /\ UNCHANGED sideVars

\* Body of Clone for Weak: fetch_add(1) on data_ref_count, abort if > MAX/2.
\* The caller builds one handle from the result: `moreArcs` Arc values and
\* `moreWeaks` Weak values.
WeakCloneBody(moreArcs, moreWeaks) ==
    /\ Room
    /\ \E old \in Seen(data_ref_count) :
         /\ data_ref_count' = Stored(data_ref_count, WrapAdd(old))
         /\ IF old > HalfMax
              THEN aborted' = TRUE /\ arcs' = arcs /\ weaks' = weaks
              ELSE /\ aborted' = aborted
                   /\ arcs' = arcs + moreArcs
                   /\ weaks' = weaks + moreWeaks

\* Clone for Weak, called on a Weak handle: the result is Self, a Weak.
WeakClone(p) ==
    /\ CanShareWeak(p)
    /\ WeakCloneBody(0, 1)
    /\ UNCHANGED <<alloc_ref_count, drops, frees, pc, n, is_unique>>
    /\ UNCHANGED sideVars

\* Weak::upgrade: n = data_ref_count.load().
UpLoad(p) ==
    /\ CanShareWeak(p)
    /\ \E cur \in Seen(data_ref_count) : n' = [n EXCEPT ![p] = cur]
    /\ Goto(p, "up_loop")
    /\ UNCHANGED <<data_ref_count, alloc_ref_count, drops, frees, arcs, weaks,
                   is_unique, aborted>>
    /\ UNCHANGED sideVars

\* Weak::upgrade: n == 0, return None.
UpNone(p) ==
    /\ ~aborted
    /\ pc[p] = "up_loop"
    /\ n[p] = 0
    /\ Finish(p)
    /\ UNCHANGED <<data_ref_count, alloc_ref_count, drops, frees, arcs, weaks,
                   is_unique, aborted>>
    /\ UNCHANGED sideVars

\* Weak::upgrade: assert!(n < usize::MAX) fails, the thread panics.
UpPanic(p) ==
    /\ ~aborted
    /\ pc[p] = "up_loop"
    /\ n[p] # 0
    /\ ~(n[p] < UsizeMax)
    /\ Goto(p, "up_panicked")
    /\ UNCHANGED <<data_ref_count, alloc_ref_count, drops, frees, arcs, weaks, n,
                   is_unique, aborted>>
    /\ UNCHANGED sideVars

\* Weak::upgrade: compare_exchange_weak(n, n + 1) on data_ref_count.
UpCas(p) ==
    /\ ~aborted
    /\ pc[p] = "up_loop"
    /\ n[p] # 0
    /\ n[p] < UsizeMax
    /\ \E cur \in Seen(data_ref_count) :
         IF cur = n[p]
           THEN /\ data_ref_count' = Stored(data_ref_count, n[p] + 1)
                /\ Goto(p, "up_clone")
                /\ n' = n
           ELSE /\ n' = [n EXCEPT ![p] = cur]
                /\ UNCHANGED <<data_ref_count, pc>>
    /\ UNCHANGED <<alloc_ref_count, drops, frees, arcs, weaks, is_unique, aborted>>
    /\ UNCHANGED sideVars

\* Weak::upgrade: return Some(Arc { weak: self.clone() }).
UpClone(p) ==
    /\ ~aborted
    /\ pc[p] = "up_clone"
    /\ WeakCloneBody(1, 0)
    /\ Finish(p)
    /\ UNCHANGED <<alloc_ref_count, drops, frees, is_unique>>
    /\ UNCHANGED sideVars

\* ------------------------------------------------------------- system
ProcStep(p) ==
    \/ Deref(p)
    \/ ArcClone(p)
    \/ GmCas(p)
    \/ GmLoad(p)
    \/ GmStore(p)
    \/ GmRelease(p)
    \/ DgLoad(p)
    \/ DgSpin(p)
    \/ DgPanic(p)
    \/ DgCas(p)
    \/ ArcDrop(p)
    \/ ArcDropPayload(p)
    \/ ArcDropWeak(p)
    \/ WeakDrop(p)
    \/ WeakDropFree(p)
    \/ WeakClone(p)
    \/ UpLoad(p)
    \/ UpNone(p)
    \/ UpPanic(p)
    \/ UpCas(p)
    \/ UpClone(p)

Next == \E p \in Procs : ProcStep(p)

\* Every program of the repository in the state its constructor leaves.
Boot == Init /\ SpinInit /\ OneInit /\ ChInit /\ MqInit

Spec == Boot /\ [][Next]_vars

\* One thread only: the handlers run one after the other, never interleaved.
NextSeq == ProcStep(1)

SeqSpec == Boot /\ [][NextSeq]_vars

\* Positions in which a thread runs no handler.
Resting == {"idle", "dg_panicked", "up_panicked"}
Quiet == \A p \in Procs : pc[p] \in Resting

TypeOK ==
    /\ data_ref_count \in Usize
    /\ alloc_ref_count \in Usize
    /\ drops \in 0..MaxDrops
    /\ frees \in 0..MaxFrees
    /\ arcs \in 0..MaxHandles
    /\ weaks \in 0..MaxHandles
    /\ pc \in [Procs -> {"idle", "gm_load", "gm_store", "gm_some", "gm_none",
                          "dg_loop", "dg_panicked", "ad_destroy", "wd_sub",
                          "wd_free", "up_loop", "up_clone", "up_panicked"}]
    /\ n \in [Procs -> Usize]
    /\ is_unique \in [Procs -> BOOLEAN]

\* ------------------------------------------------------------- claims
\* Strong owners: the live Arc values plus the Arc values an upgrade has
\* already counted in data_ref_count and is about to hand out.
StrongOwners == arcs + Cardinality({p \in Procs : pc[p] = "up_clone"})

\* C1: the payload destructor runs at most once and never while an Arc is
\* alive, so a live Arc always dereferences an initialized payload.
C1_PayloadOutlivesArcs ==
    /\ drops <= 1
    /\ arcs > 0 => drops = 0

\* C2: when the drop of the last Arc has completed, the payload has been
\* destroyed exactly once, whatever Weak handles remain and whatever
\* upgrades came and went before.
C2_LastArcDropDestroys ==
    (arcs = 0 /\ \A p \in Procs : pc[p] \notin {"ad_destroy", "up_clone"})
        => drops = 1

\* C3: the block's storage is released at most once, never while a handle of
\* either kind is alive, and no handler is still working on the block's
\* counters once it is released.
C3_StorageOutlivesHandles ==
    /\ frees <= 1
    /\ frees > 0 => (arcs + weaks = 0 /\ Quiet)

\* C4: no leak: once every handle has been dropped and no handler is
\* running, alloc_ref_count is 0 and the storage has been released.
C4_NoLeak ==
    (arcs + weaks = 0 /\ Quiet /\ ~aborted)
        => (alloc_ref_count = 0 /\ frees = 1)

\* C5: when get_mut has returned Some, the calling Arc is the only handle of
\* either kind to the block.
C5_GetMutExclusive ==
    \A p \in Procs : pc[p] = "gm_some" => arcs + weaks = 1

\* C6: without concurrent operations get_mut returns Some exactly when the
\* calling Arc is the only handle: Some if it is, None if it is not.
C6_GetMutExactSeq ==
    /\ pc[1] = "gm_some" => arcs + weaks = 1
    /\ pc[1] = "gm_none" => arcs + weaks > 1

\* C7: an upgrade succeeds (its compare-exchange on data_ref_count takes
\* effect) only while a strong owner exists and the payload is not
\* destroyed: after the last Arc is gone every upgrade returns None.
C7_NoUpgradeAfterLastArc ==
    [][\A p \in Procs :
         (pc[p] = "up_loop" /\ pc'[p] = "up_clone")
             => (StrongOwners >= 1 /\ drops = 0)]_vars

\* C8: run on its own while an Arc is alive, upgrade returns Some, and from
\* call to return it raises data_ref_count by exactly one (n is the value its
\* compare-exchange replaced), raises alloc_ref_count by exactly one, and
\* adds one Arc and nothing else.
C8_UpgradeCountsSeq ==
    [][/\ (pc[1] = "up_loop" /\ pc'[1] = "idle") => arcs = 0
       /\ (pc[1] = "up_clone" /\ pc'[1] = "idle" /\ arcs >= 1 /\ ~aborted')
            => /\ data_ref_count' = n[1] + 1
               /\ alloc_ref_count' = alloc_ref_count + 1
               /\ arcs' = arcs + 1
               /\ weaks' = weaks]_vars

\* C9: downgrade always succeeds: a call never ends any other way than by
\* returning a Weak, its increment raises alloc_ref_count by exactly one,
\* and it is never applied to an observed sentinel.
C9_DowngradeSucceeds ==
    [][\A p \in Procs :
         /\ pc'[p] # "dg_panicked"
         /\ (pc[p] = "dg_loop" /\ pc'[p] = "idle")
              => /\ n[p] # UsizeMax
                 /\ weaks' = weaks + 1
                 /\ frees = 0 => alloc_ref_count' = alloc_ref_count + 1]_vars

\* C10: no increment wraps a counter around or brings alloc_ref_count to the
\* sentinel, and an increment of a counter that is already past the
\* threshold usize::MAX / 2 aborts the process.
C10_NoOverflow ==
    [][/\ ~(data_ref_count = UsizeMax /\ data_ref_count' = 0)
       /\ ~(alloc_ref_count = UsizeMax /\ alloc_ref_count' = 0)
       /\ ~(alloc_ref_count = UsizeMax - 1 /\ alloc_ref_count' = UsizeMax)
       /\ (data_ref_count > HalfMax /\ data_ref_count' = data_ref_count + 1)
            => aborted'
       /\ (alloc_ref_count > HalfMax /\ alloc_ref_count' = alloc_ref_count + 1)
            => aborted']_vars

\* ------------------------------------------------------------- SpinLock
\* What the other programs' variables do during a step of this one.
SpinOnly == UNCHANGED <<arcVars, oneVars, chVars, mqVars>>

Held == {t \in Spinners \cup {Main} : sp[t] = "held"}      \* live Guards

\* The Vec is made of whole runs: every thread's pushes are adjacent.
InRuns(v) ==
    \A i, j, k \in DOMAIN v : (i < j /\ j < k /\ v[i] = v[k]) => v[j] = v[i]

Occurs(v, t) == Cardinality({i \in DOMAIN v : v[i] = t})

\* assert!(g == [1, 2, 2] || g == [2, 2, 1]), for any number of threads.
Expected(v) == InRuns(v) /\ \A t \in Spinners : Occurs(v, t) = PushesOf(t)

\* A lock that would take the Guard whatever swap returned.
AcquiredAlways(old) == TRUE

\* lock() leaves its loop when swap(true) returned false.
Acquired(old) == ~old

\* One iteration of `while self.locked.swap(true, Acquire)`.
LockSwap(t) ==
    /\ sp[t] = "lock"
    /\ locked' = TRUE
    /\ sp' = [sp EXCEPT ![t] = IF Acquired(locked) THEN "held" ELSE "lock"]
    /\ UNCHANGED <<value, pushed, asserted>>
    /\ SpinOnly

\* guard.push(t): deref_mut, then Vec::push.
GuardPush(t) ==
    /\ t \in Spinners
    /\ sp[t] = "held"
    /\ pushed[t] < PushesOf(t)
    /\ value' = Append(value, t)
    /\ pushed' = [pushed EXCEPT ![t] = @ + 1]
    /\ UNCHANGED <<locked, sp, asserted>>
    /\ SpinOnly

\* Drop for Guard, at the end of the statement or of the closure.
GuardDrop(t) ==
    /\ sp[t] = "held"
    /\ IF t = Main THEN asserted = "pass" ELSE pushed[t] = PushesOf(t)
    /\ locked' = FALSE
    /\ sp' = [sp EXCEPT ![t] = "done"]
    /\ UNCHANGED <<value, pushed, asserted>>
    /\ SpinOnly

\* s.spawn(..): the scope starts its threads one after the other.
ScopeSpawn(t) ==
    /\ sp[Main] = "scope"
    /\ sp[t] = "new"
    /\ \A u \in Spinners : u < t => sp[u] # "new"
    /\ sp' = [sp EXCEPT ![t] = "lock"]
    /\ UNCHANGED <<locked, value, pushed, asserted>>
    /\ SpinOnly

\* thread::scope returns when every spawned thread has finished.
ScopeEnd ==
    /\ sp[Main] = "scope"
    /\ \A t \in Spinners : sp[t] = "done"
    /\ sp' = [sp EXCEPT ![Main] = "lock"]
    /\ UNCHANGED <<locked, value, pushed, asserted>>
    /\ SpinOnly

\* The assert! under the main thread's Guard; a failure panics.
MainAssert ==
    /\ sp[Main] = "held"
    /\ asserted = "none"
    /\ asserted' = IF Expected(value) THEN "pass" ELSE "fail"
    /\ UNCHANGED <<locked, value, sp, pushed>>
    /\ SpinOnly

SpinNext ==
    \/ \E t \in Spinners \cup {Main} : LockSwap(t)
    \/ \E t \in Spinners : GuardPush(t)
    \/ \E t \in Spinners \cup {Main} : GuardDrop(t)
    \/ \E t \in Spinners : ScopeSpawn(t)
    \/ ScopeEnd
    \/ MainAssert

SpinSpec == Boot /\ [][SpinNext]_vars

\* C11: at most one Guard of the SpinLock exists at any time, so the pushes
\* one thread makes under its Guard are never interleaved with another
\* thread's, and the assert! on the final Vec never fails.
C11_MutualExclusion ==
    /\ Cardinality(Held) <= 1
    /\ Held # {} => locked
    /\ InRuns(value)
    /\ asserted # "fail"

\* The scope has ended with the last thread's run first, and the assert! passed.
C11_Witness == asserted = "pass" /\ value[1] = NumSpinners /\ sp[Main] = "done"

\* ------------------------------------------------------- OneshotChannel
OneOnly == UNCHANGED <<arcVars, spinVars, chVars, mqVars>>

Record(log, v) == IF Len(log) < MaxMoves THEN Append(log, v) ELSE log

\* assume_init_read / assume_init_drop: the value the slot yields.  A slot
\* that holds no value yields any bit pattern.
Yield == IF message = Uninit THEN Msgs ELSE {message}

OpGoto(t, label) == op' = [op EXCEPT ![t] = label]

\* A send that would write whatever swap returned.
SendProceedsAlways(old) == TRUE

\* send goes on to write when in_use.swap(true) returned false.
SendProceeds(old) == ~old

\* send: if self.in_use.swap(true, Relaxed) { panic!(..) }
SendSwap(t, m) ==
    /\ op[t] = "idle"
    /\ ~dropped
    /\ in_use' = TRUE
    /\ IF SendProceeds(in_use)
       THEN OpGoto(t, "send_write") /\ arg' = [arg EXCEPT ![t] = m]
       ELSE OpGoto(t, "panicked") /\ UNCHANGED arg
    /\ UNCHANGED <<message, ready, saw, written, taken, uninit_read, dropped>>
    /\ OneOnly

\* send: (*self.message.get()).write(message)
SendWrite(t) ==
    /\ op[t] = "send_write"
    /\ message' = arg[t]
    /\ written' = Record(written, arg[t])
    /\ OpGoto(t, "send_store")
    /\ UNCHANGED <<ready, in_use, arg, saw, taken, uninit_read, dropped>>
    /\ OneOnly

\* send: self.ready.store(true, Release)
SendStore(t) ==
    /\ op[t] = "send_store"
    /\ ready' = TRUE
    /\ OpGoto(t, "idle")
    /\ arg' = [arg EXCEPT ![t] = Uninit]
    /\ UNCHANGED <<message, in_use, saw, written, taken, uninit_read, dropped>>
    /\ OneOnly

\* is_ready: self.ready.load(Relaxed)
IsReady(t) ==
    /\ op[t] = "idle"
    /\ ~dropped
    /\ saw' = [saw EXCEPT ![t] = ready]
    /\ UNCHANGED <<message, ready, in_use, op, arg, written, taken, uninit_read,
                   dropped>>
    /\ OneOnly

\* receive: if !self.ready.swap(false, Acquire) { panic!(..) }
ReceiveSwap(t) ==
    /\ op[t] = "idle"
    /\ ~dropped
    /\ ready' = FALSE
    /\ OpGoto(t, IF ready THEN "receive_read" ELSE "panicked")
    /\ UNCHANGED <<message, in_use, arg, saw, written, taken, uninit_read,
                   dropped>>
    /\ OneOnly

\* receive: (*self.message.get()).assume_init_read()
ReceiveRead(t) ==
    /\ op[t] = "receive_read"
    /\ \E v \in Yield : taken' = Record(taken, v)
    /\ uninit_read' = (uninit_read \/ message = Uninit)
    /\ message' = Uninit
    /\ OpGoto(t, "idle")
    /\ UNCHANGED <<ready, in_use, arg, saw, written, dropped>>
    /\ OneOnly

\* Drop for OneshotChannel: needs &mut self, so no call is in progress.
ChannelDrop ==
    /\ ~dropped
    /\ \A t \in Users : op[t] \in {"idle", "panicked"}
    /\ dropped' = TRUE
    /\ IF ready
       THEN /\ \E v \in Yield : taken' = Record(taken, v)
            /\ uninit_read' = (uninit_read \/ message = Uninit)
            /\ message' = Uninit
       ELSE UNCHANGED <<taken, uninit_read, message>>
    /\ UNCHANGED <<ready, in_use, op, arg, saw, written>>
    /\ OneOnly

OneNext ==
    \/ \E t \in Users, m \in Msgs : SendSwap(t, m)
    \/ \E t \in Users : SendWrite(t)
    \/ \E t \in Users : SendStore(t)
    \/ \E t \in Users : IsReady(t)
    \/ \E t \in Users : ReceiveSwap(t)
    \/ \E t \in Users : ReceiveRead(t)
    \/ ChannelDrop

OneSpec == Boot /\ [][OneNext]_vars

\* C12: in every interleaving of send, is_ready, receive and the final drop
\* the slot is written at most once, its message is moved out at most once
\* (by one receive or by the drop) and is the message that was written, and
\* the slot is never read while it holds no value.
C12_OneWriteOneTake ==
    /\ Len(written) <= 1
    /\ Len(taken) <= 1
    /\ \A i \in DOMAIN taken : written # <<>> /\ taken[i] = written[1]
    /\ ~uninit_read

\* A second send and an early receive have panicked, one receive took the
\* message, and the channel was dropped afterwards.
C12_Witness ==
    /\ dropped
    /\ Len(taken) = 1
    /\ ~ready
    /\ \A t \in Users : op[t] = "panicked"

\* ---------------------------------------------------- Sender / Receiver
ChOnly == UNCHANGED <<arcVars, spinVars, oneVars, mqVars>>

ChYield == IF ch_message = Uninit THEN Msgs ELSE {ch_message}

\* An unpark that would leave the token as it was: a lost wake-up.
UnparkLost(tok) == tok

\* Thread::unpark makes the token available, whatever it was.
Unpark(tok) == TRUE

\* Sender::send: (*self.channel.message.get()).write(message)
ChSendWrite(m) ==
    /\ sender = "new"
    /\ ch_message' = m
    /\ sent' = m
    /\ sender' = "store"
    /\ UNCHANGED <<ch_ready, token, receiver, calls, woken, results,
                   ch_uninit_read, ch_dropped>>
    /\ ChOnly

\* Sender::send: self.channel.ready.store(true, Release)
ChSendStore ==
    /\ sender = "store"
    /\ ch_ready' = TRUE
    /\ sender' = "unpark"
    /\ UNCHANGED <<ch_message, token, receiver, sent, calls, woken, results,
                   ch_uninit_read, ch_dropped>>
    /\ ChOnly

\* Sender::send: self.receiving_thread.unpark()
ChSendUnpark ==
    /\ sender = "unpark"
    /\ token' = Unpark(token)
    /\ sender' = "done"
    /\ UNCHANGED <<ch_message, ch_ready, receiver, sent, calls, woken, results,
                   ch_uninit_read, ch_dropped>>
    /\ ChOnly

\* The thread that called split calls receiver.receive().
ChReceiveCall ==
    /\ receiver = "idle"
    /\ ~ch_dropped
    /\ calls < MaxReceives
    /\ calls' = calls + 1
    /\ receiver' = "swap"
    /\ UNCHANGED <<ch_message, ch_ready, token, sender, sent, woken, results,
                   ch_uninit_read, ch_dropped>>
    /\ ChOnly

\* Receiver::receive: while !self.channel.ready.swap(false, Acquire)
ChReceiveSwap ==
    /\ receiver = "swap"
    /\ ch_ready' = FALSE
    /\ receiver' = IF ch_ready THEN "read" ELSE "park"
    /\ UNCHANGED <<ch_message, token, sender, sent, calls, woken, results,
                   ch_uninit_read, ch_dropped>>
    /\ ChOnly

\* thread::park returns when the token is available, and consumes it.
ChPark ==
    /\ receiver = "park"
    /\ token
    /\ token' = FALSE
    /\ woken' = "token"
    /\ receiver' = "swap"
    /\ UNCHANGED <<ch_message, ch_ready, sender, sent, calls, results,
                   ch_uninit_read, ch_dropped>>
    /\ ChOnly

\* thread::park may also return spuriously.
ChSpuriousWake ==
    /\ receiver = "park"
    /\ woken' = "spurious"
    /\ receiver' = "swap"
    /\ UNCHANGED <<ch_message, ch_ready, token, sender, sent, calls, results,
                   ch_uninit_read, ch_dropped>>
    /\ ChOnly

\* An unpark of the same thread by other code, such as the t.unpark() of
\* simulate_oneshot_channel, which main runs before.
ChStrayUnpark ==
    /\ ~token
    /\ ~ch_dropped
    /\ token' = TRUE
    /\ UNCHANGED <<ch_message, ch_ready, sender, receiver, sent, calls, woken,
                   results, ch_uninit_read, ch_dropped>>
    /\ ChOnly

\* Receiver::receive: (*self.channel.message.get()).assume_init_read()
ChReceiveRead ==
    /\ receiver = "read"
    /\ \E v \in ChYield : results' = Append(results, v)
    /\ ch_uninit_read' = (ch_uninit_read \/ ch_message = Uninit)
    /\ ch_message' = Uninit
    /\ receiver' = "idle"
    /\ UNCHANGED <<ch_ready, token, sender, sent, calls, woken, ch_dropped>>
    /\ ChOnly

\* Drop for Channel, after the scope: the sender's thread has finished and
\* no receive is in progress.
ChDrop ==
    /\ ~ch_dropped
    /\ sender = "done"
    /\ receiver = "idle"
    /\ ch_dropped' = TRUE
    /\ IF ch_ready
       THEN /\ ch_uninit_read' = (ch_uninit_read \/ ch_message = Uninit)
            /\ ch_message' = Uninit
       ELSE UNCHANGED <<ch_uninit_read, ch_message>>
    /\ UNCHANGED <<ch_ready, token, sender, receiver, sent, calls, woken, results>>
    /\ ChOnly

SenderStep == (\E m \in Msgs : ChSendWrite(m)) \/ ChSendStore \/ ChSendUnpark

ReceiverStep == ChReceiveSwap \/ ChPark \/ ChReceiveRead

ChNext ==
    \/ \E m \in Msgs : ChSendWrite(m)
    \/ ChSendStore
    \/ ChSendUnpark
    \/ ChReceiveCall
    \/ ChReceiveSwap
    \/ ChPark
    \/ ChSpuriousWake
    \/ ChStrayUnpark
    \/ ChReceiveRead
    \/ ChDrop

\* A spawned thread runs to its end, and a thread that can run does: the
\* scheduler owes both threads their steps, but no spurious or stray wake-up.
ChSpec ==
    /\ Boot
    /\ [][ChNext]_vars
    /\ WF_vars(SenderStep)
    /\ WF_vars(ReceiverStep)

\* What receive has returned was stored by send before, and is its message.
ChSafe ==
    /\ ~ch_uninit_read
    /\ \A i \in DOMAIN results :
          sender \in {"unpark", "done"} /\ results[i] = sent

\* C13: Receiver::receive never returns before Sender::send has stored the
\* message, returns exactly the message sent, and, once send and receive
\* have both been called, eventually returns: no wake-up is lost between the
\* sender's store-then-unpark and the receiver's check-then-park.
C13_ReceiveGetsMessage ==
    /\ []ChSafe
    /\ (sender # "new" /\ calls >= 1) ~> (results # <<>>)

\* receive found the flag clear, parked, and was woken by the sender's token.
C13_Witness ==
    /\ results # <<>>
    /\ sender = "done"
    /\ woken = "token"
    /\ calls = 1
    /\ ch_dropped

\* --------------------------------------------------------- MutexChannel
MqOnly == UNCHANGED <<arcVars, spinVars, oneVars, chVars>>

WkGoto(t, label) == wk' = [wk EXCEPT ![t] = label]

\* Mutex::lock returns when no other thread holds the Mutex.
Acquire(t) == mutex = Unlocked /\ mutex' = t

\* VecDeque::pop_back, the other end of the queue.
PopBack(q) == <<q[Len(q)], SubSeq(q, 1, Len(q) - 1)>>

\* VecDeque::pop_front on a queue that is not empty: <<item, rest>>.
PopFront(q) == <<Head(q), Tail(q)>>

InReceive ==
    {t \in Workers : wk[t] \in {"recv_lock", "recv_pop", "recv_wait", "recv_relock"}}

\* A thread calls send(message).
MqSendCall(t) ==
    /\ wk[t] = "idle"
    /\ sends < MaxSends
    /\ sends' = sends + 1
    /\ carried' = [carried EXCEPT ![t] = sends + 1]
    /\ WkGoto(t, "send_lock")
    /\ UNCHANGED <<queue, mutex, waiters, spurious, appended, popped>>
    /\ MqOnly

\* send: self.queue.lock().unwrap()
MqSendLock(t) ==
    /\ wk[t] = "send_lock"
    /\ Acquire(t)
    /\ WkGoto(t, "send_push")
    /\ UNCHANGED <<queue, waiters, carried, sends, spurious, appended, popped>>
    /\ MqOnly

\* send: .push_back(message); the MutexGuard is dropped with the statement.
MqSendPush(t) ==
    /\ wk[t] = "send_push"
    /\ queue' = Append(queue, carried[t])
    /\ appended' = Append(appended, carried[t])
    /\ mutex' = Unlocked
    /\ carried' = [carried EXCEPT ![t] = 0]
    /\ WkGoto(t, "send_notify")
    /\ UNCHANGED <<waiters, sends, spurious, popped>>
    /\ MqOnly

\* send: self.item_ready.notify_one() wakes one waiting thread, if any.
MqNotify(t) ==
    /\ wk[t] = "send_notify"
    /\ IF waiters = {}
       THEN /\ WkGoto(t, "idle")
            /\ UNCHANGED waiters
       ELSE \E w \in waiters :
              /\ waiters' = waiters \ {w}
              /\ wk' = [wk EXCEPT ![t] = "idle", ![w] = "recv_relock"]
    /\ UNCHANGED <<queue, mutex, carried, sends, spurious, appended, popped>>
    /\ MqOnly

\* A thread calls receive().
MqReceiveCall(t) ==
    /\ wk[t] = "idle"
    /\ WkGoto(t, "recv_lock")
    /\ UNCHANGED <<queue, mutex, waiters, carried, sends, spurious, appended,
                   popped>>
    /\ MqOnly

\* receive: let mut b = self.queue.lock().unwrap()
MqReceiveLock(t) ==
    /\ wk[t] = "recv_lock"
    /\ Acquire(t)
    /\ WkGoto(t, "recv_pop")
    /\ UNCHANGED <<queue, waiters, carried, sends, spurious, appended, popped>>
    /\ MqOnly

\* receive: if let Some(message) = b.pop_front() { return message }
MqReceivePop(t) ==
    /\ wk[t] = "recv_pop"
    /\ queue # <<>>
    /\ popped' = Append(popped, PopFront(queue)[1])
    /\ queue' = PopFront(queue)[2]
    /\ mutex' = Unlocked
    /\ WkGoto(t, "idle")
    /\ UNCHANGED <<waiters, carried, sends, spurious, appended>>
    /\ MqOnly

\* receive: pop_front returned None; item_ready.wait(b) unlocks the Mutex
\* and blocks the thread, in one step.
MqReceiveWait(t) ==
    /\ wk[t] = "recv_pop"
    /\ queue = <<>>
    /\ mutex' = Unlocked
    /\ waiters' = waiters \cup {t}
    /\ WkGoto(t, "recv_wait")
    /\ UNCHANGED <<queue, carried, sends, spurious, appended, popped>>
    /\ MqOnly

\* Condvar::wait may return without a notification.
MqSpuriousWake(t) ==
    /\ wk[t] = "recv_wait"
    /\ spurious < MaxSpurious
    /\ spurious' = spurious + 1
    /\ waiters' = waiters \ {t}
    /\ WkGoto(t, "recv_relock")
    /\ UNCHANGED <<queue, mutex, carried, sends, appended, popped>>
    /\ MqOnly

\* wait locks the Mutex again before it returns; the loop starts over.
MqRelock(t) ==
    /\ wk[t] = "recv_relock"
    /\ Acquire(t)
    /\ WkGoto(t, "recv_pop")
    /\ UNCHANGED <<queue, waiters, carried, sends, spurious, appended, popped>>
    /\ MqOnly

\* The steps a thread takes by itself once it is inside send or receive.
MqRun(t) ==
    \/ MqSendLock(t)
    \/ MqSendPush(t)
    \/ MqNotify(t)
    \/ MqReceiveLock(t)
    \/ MqReceivePop(t)
    \/ MqReceiveWait(t)
    \/ MqRelock(t)

MqNext ==
    \/ \E t \in Workers : MqSendCall(t)
    \/ \E t \in Workers : MqSendLock(t)
    \/ \E t \in Workers : MqSendPush(t)
    \/ \E t \in Workers : MqNotify(t)
    \/ \E t \in Workers : MqReceiveCall(t)
    \/ \E t \in Workers : MqReceiveLock(t)
    \/ \E t \in Workers : MqReceivePop(t)
    \/ \E t \in Workers : MqReceiveWait(t)
    \/ \E t \in Workers : MqSpuriousWake(t)
    \/ \E t \in Workers : MqRelock(t)

\* A thread inside send or receive that can take a step is scheduled.
MqSpec ==
    /\ Boot
    /\ [][MqNext]_vars
    /\ \A t \in Workers : WF_vars(MqRun(t))

\* The messages returned so far are the first ones appended, in the order
\* appended, and the queue holds exactly the rest.
MqSafe == appended = popped \o queue

\* C14: with concurrent senders and receivers every message appended by
\* send is returned by at most one receive, in the order appended, receive
\* returns only a message that was sent, and no message stays queued for
\* ever while a thread is inside receive.
C14_EveryMessageOnceInOrder ==
    /\ []MqSafe
    /\ (queue # <<>> /\ InReceive # {}) ~> (queue = <<>> \/ InReceive = {})

\* One message has been returned, and a receiver that waited on the empty
\* queue has been woken by the notify_one of the send that appended the next.
C14_Witness ==
    /\ Len(popped) >= 1
    /\ queue # <<>>
    /\ spurious = 0
    /\ \E t \in Workers : wk[t] = "recv_relock"

\* ------------------------------------------------- claims on the counters
\* The block exists and no handler is between two of its steps.
AtRest == Quiet /\ ~aborted /\ frees = 0

\* A thread is between the compare-exchange of get_mut that wrote the
\* sentinel and the store that takes it back.
InWindow(p) == pc[p] \in {"gm_load", "gm_store"}

\* C15: whenever no handle operation is in progress, data_ref_count is the
\* number of live Arc handles.
C15_StrongCountIsArcs == AtRest => data_ref_count = arcs

\* C16: whenever no handle operation is in progress, alloc_ref_count is the
\* number of live handles, Arc and Weak together.
C16_AllocCountIsHandles == AtRest => alloc_ref_count = arcs + weaks

\* C17: every drop of an Arc, last or not, takes one from data_ref_count and
\* then one from alloc_ref_count as a Weak drop does, and the block is
\* released only when that takes alloc_ref_count to 0.
C17_EveryArcDropDropsWeak ==
    [][\A p \in Procs :
         /\ (pc[p] = "idle" /\ arcs' = arcs - 1 /\ pc'[p] # pc[p] /\ frees = 0)
              => data_ref_count' = data_ref_count - 1
         /\ (arcs' = arcs - 1 /\ pc' = pc /\ frees = 0)
              => alloc_ref_count' = alloc_ref_count - 1
         /\ (pc[p] = "wd_free" /\ frees' = 1)
              => alloc_ref_count = 0]_vars

\* C18: the block only moves forward through Live, WeakOnly and Freed: once
\* data_ref_count is 0 it stays 0, and once alloc_ref_count is 0 it is never
\* raised again.
C18_CountersStayZero ==
    [][/\ data_ref_count = 0 => data_ref_count' = 0
       /\ alloc_ref_count = 0 => alloc_ref_count' = 0]_vars

\* C19: while alloc_ref_count holds the sentinel written by get_mut, nothing
\* changes it but the store of 1 by the same get_mut.
C19_SentinelUntouched ==
    [][\A p \in Procs :
         (InWindow(p) /\ frees = 0)
            => \/ alloc_ref_count' = alloc_ref_count
               \/ /\ pc[p] = "gm_store"
                  /\ pc'[p] \in {"gm_some", "gm_none"}
                  /\ alloc_ref_count' = 1]_vars

====
